---------------------------- MODULE Spec2Model ----------------------------
(***************************************************************************)
(* A model of wk (main.go): the week planner's store of blocks, its        *)
(* commands (add, note, actual, done, undone, rm, ls), and the pure        *)
(* helpers they call (parseDay, parseTimeRange, extractTags, dayDate).     *)
(*                                                                         *)
(* Strings are sequences of one-character strings, so that splitting,      *)
(* padding, trimming and byte-wise comparison are computed, not assumed.   *)
(* The glyphs of the listing are named: "CHECK" is the check mark, "BOLT"  *)
(* the lightning bolt, "ARROW" the arrow and "BULLET" the note bullet.     *)
(***************************************************************************)
EXTENDS Integers, Sequences, FiniteSets, TLC

VARIABLES
    store,      \* the rows of table blocks
    clock,      \* CURRENT_TIMESTAMP, in seconds
    today,      \* the local date time.Now() reads, as a day number
    last,       \* the command that ran last: its name, id argument and error,
                \* the time range given to actual <id>, the day given to ls
    out,        \* what ls printed last (empty after any other command)
    toggle,     \* bookkeeping of a done-then-undone pair on one id
    removed,    \* ids deleted by rm so far
    dtok,       \* a function on its own: the token it is given
    dres,       \* a function on its own: its result for dtok
    ddate       \* date round trip: dayDate's result for dres

vars == <<store, clock, today, last, out, toggle, removed, dtok, dres, ddate>>

-----------------------------------------------------------------------------
(* Bounds of the model *)

\* CURRENT_TIMESTAMP ranges over 0..MaxClock
MaxClock == 1
\* the date round trip covers the years FirstYear..LastYear
FirstYear == 2020
LastYear == 2024

-----------------------------------------------------------------------------
(* Characters and strings *)

Digits == <<"0", "1", "2", "3", "4", "5", "6", "7", "8", "9">>
UpperLetters == <<"A","B","C","D","E","F","G","H","I","J","K","L","M",
                  "N","O","P","Q","R","S","T","U","V","W","X","Y","Z">>
LowerLetters == <<"a","b","c","d","e","f","g","h","i","j","k","l","m",
                  "n","o","p","q","r","s","t","u","v","w","x","y","z">>

Range(f) == {f[i] : i \in DOMAIN f}

DigitSet == Range(Digits)
UpperSet == Range(UpperLetters)
LowerSet == Range(LowerLetters)
DigitValue == [c \in DigitSet |-> CHOOSE i \in 0..9 : Digits[i + 1] = c]
LowerOf == [c \in UpperSet |-> LowerLetters[CHOOSE i \in 1..26 : UpperLetters[i] = c]]
UpperOf == [c \in LowerSet |-> UpperLetters[CHOOSE i \in 1..26 : LowerLetters[i] = c]]

IsDigit(c) == c \in DigitSet
DigitVal(c) == DigitValue[c]
IsUpper(c) == c \in UpperSet
IsLower(c) == c \in LowerSet
\* \w of the regexp package: [0-9A-Za-z_]
IsWord(c) == IsDigit(c) \/ IsUpper(c) \/ IsLower(c) \/ c = "_"
\* the ASCII white space strings.TrimSpace removes
IsSpace(c) == c \in {" ", "\t", "\n", "\r"}

ToLowerChar(c) == IF IsUpper(c) THEN LowerOf[c] ELSE c
ToUpperChar(c) == IF IsLower(c) THEN UpperOf[c] ELSE c
ToLower(s) == [i \in 1..Len(s) |-> ToLowerChar(s[i])]
ToUpper(s) == [i \in 1..Len(s) |-> ToUpperChar(s[i])]

RECURSIVE TrimLeft(_)
TrimLeft(s) == IF s # <<>> /\ IsSpace(Head(s)) THEN TrimLeft(Tail(s)) ELSE s
RECURSIVE TrimRight(_)
TrimRight(s) ==
    IF s # <<>> /\ IsSpace(s[Len(s)]) THEN TrimRight(SubSeq(s, 1, Len(s) - 1)) ELSE s
TrimSpace(s) == TrimRight(TrimLeft(s))

HasPrefix(s, p) == Len(s) >= Len(p) /\ SubSeq(s, 1, Len(p)) = p

\* strings.Split(s, sep) for a one-character separator
RECURSIVE SplitFrom(_, _, _)
SplitFrom(s, sep, cur) ==
    IF s = <<>> THEN <<cur>>
    ELSE IF Head(s) = sep THEN <<cur>> \o SplitFrom(Tail(s), sep, <<>>)
    ELSE SplitFrom(Tail(s), sep, Append(cur, Head(s)))
Split(s, sep) == SplitFrom(s, sep, <<>>)

\* strings.Join(parts, sep)
RECURSIVE Join(_, _)
Join(parts, sep) ==
    IF parts = <<>> THEN <<>>
    ELSE IF Len(parts) = 1 THEN parts[1]
    ELSE parts[1] \o sep \o Join(Tail(parts), sep)

\* strings.ReplaceAll(s, old, new) for a one-character old
RECURSIVE ReplaceAll(_, _, _)
ReplaceAll(s, old, new) ==
    IF s = <<>> THEN <<>>
    ELSE (IF Head(s) = old THEN new ELSE <<Head(s)>>) \o ReplaceAll(Tail(s), old, new)

\* %d of a natural number
RECURSIVE IntToStr(_)
IntToStr(n) ==
    IF n < 10 THEN <<Digits[n + 1]>> ELSE IntToStr(n \div 10) \o <<Digits[(n % 10) + 1]>>
\* %02d
Pad2(n) == IF n < 10 THEN <<"0">> \o IntToStr(n) ELSE IntToStr(n)
\* %04d, the year of a date token
Pad4(n) ==
    IF n < 10 THEN <<"0", "0", "0">> \o IntToStr(n)
    ELSE IF n < 100 THEN <<"0", "0">> \o IntToStr(n)
    ELSE IF n < 1000 THEN <<"0">> \o IntToStr(n)
    ELSE IntToStr(n)

\* the value of a run of digits
RECURSIVE StrToInt(_)
StrToInt(s) ==
    IF s = <<>> THEN 0 ELSE 10 * StrToInt(SubSeq(s, 1, Len(s) - 1)) + DigitVal(s[Len(s)])

\* the longest prefix of s made of digits
RECURSIVE DigitPrefix(_)
DigitPrefix(s) ==
    IF s # <<>> /\ IsDigit(Head(s)) THEN <<Head(s)>> \o DigitPrefix(Tail(s)) ELSE <<>>

\* the byte of a character of a stored time ('0'..'9' and ':')
CharCode(c) == IF IsDigit(c) THEN 48 + DigitVal(c) ELSE 58

\* memcmp order of SQLite's BINARY collation
RECURSIVE StrLess(_, _)
StrLess(a, b) ==
    IF b = <<>> THEN FALSE
    ELSE IF a = <<>> THEN TRUE
    ELSE IF CharCode(Head(a)) # CharCode(Head(b)) THEN CharCode(Head(a)) < CharCode(Head(b))
    ELSE StrLess(Tail(a), Tail(b))
StrLeq(a, b) == a = b \/ StrLess(a, b)

-----------------------------------------------------------------------------
(* The calendar of package time: dates are day numbers, day 1 being        *)
(* Monday 0001-01-01 of the proleptic Gregorian calendar.                  *)

IsLeap(y) == (y % 4 = 0 /\ y % 100 # 0) \/ y % 400 = 0
DaysIn(y, m) ==
    IF m = 2 THEN (IF IsLeap(y) THEN 29 ELSE 28)
    ELSE IF m \in {4, 6, 9, 11} THEN 30 ELSE 31
DaysBeforeYear(y) ==
    365 * (y - 1) + ((y - 1) \div 4) - ((y - 1) \div 100) + ((y - 1) \div 400)
RECURSIVE DaysBeforeMonth(_, _)
DaysBeforeMonth(y, m) ==
    IF m = 1 THEN 0 ELSE DaysBeforeMonth(y, m - 1) + DaysIn(y, m - 1)
\* time.Date(y, m, d, 0, 0, 0, 0, time.Local) of a real date
DayNum(y, m, d) == DaysBeforeYear(y) + DaysBeforeMonth(y, m) + d

YearOf(n) ==
    CHOOSE y \in (n \div 366)..((n \div 365) + 1) :
        DayNum(y, 1, 1) <= n /\ n < DayNum(y + 1, 1, 1)
MonthOf(n) ==
    LET y == YearOf(n)
    IN  CHOOSE m \in 1..12 : DayNum(y, m, 1) <= n /\ n < DayNum(y, m, 1) + DaysIn(y, m)
DayOf(n) == n - DayNum(YearOf(n), MonthOf(n), 1) + 1

\* Time.Weekday(): Sunday = 0 .. Saturday = 6
Weekday(n) == n % 7
Monday == 1
Thursday == 4

WeekdayNames == <<<<"S","u","n","d","a","y">>, <<"M","o","n","d","a","y">>, <<"T","u","e","s","d","a","y">>,
                  <<"W","e","d","n","e","s","d","a","y">>, <<"T","h","u","r","s","d","a","y">>,
                  <<"F","r","i","d","a","y">>, <<"S","a","t","u","r","d","a","y">>>>
\* Weekday.String()
WeekdayString(w) == WeekdayNames[w + 1]

MonthNames == <<<<"J","a","n">>, <<"F","e","b">>, <<"M","a","r">>, <<"A","p","r">>, <<"M","a","y">>, <<"J","u","n">>,
                <<"J","u","l">>, <<"A","u","g">>, <<"S","e","p">>, <<"O","c","t">>, <<"N","o","v">>, <<"D","e","c">>>>
\* Time.Format("Jan 2")
FormatJan2(n) == MonthNames[MonthOf(n)] \o <<" ">> \o IntToStr(DayOf(n))

\* Time.ISOWeek(): the year and week of the Thursday of the date's week
ISOWeek(n) ==
    LET d0 == Thursday - Weekday(n)
        d == IF d0 = 4 THEN -3 ELSE d0
        th == n + d
        year == YearOf(th)
    IN  [year |-> year, week |-> ((th - DayNum(year, 1, 1)) \div 7) + 1]

\* fmt.Sprintf("%d-W%02d", year, isoWeek)
FormatWeek(year, isoWeek) == IntToStr(year) \o <<"-", "W">> \o Pad2(isoWeek)

\* fmt.Sscanf(week, "%d-W%d", &year, &weekNum): what is not scanned stays 0
ScanWeek(week) ==
    LET y == DigitPrefix(week)
        rest == SubSeq(week, Len(y) + 1, Len(week))
        w == IF HasPrefix(rest, <<"-", "W">>)
             THEN DigitPrefix(SubSeq(rest, 3, Len(rest))) ELSE <<>>
    IN  [year |-> IF y = <<>> THEN 0 ELSE StrToInt(y),
         weekNum |-> IF y = <<>> \/ w = <<>> THEN 0 ELSE StrToInt(w)]

-----------------------------------------------------------------------------
(* parseDay *)

days == <<<<"m","o","n","d","a","y">>, <<"t","u","e","s","d","a","y">>, <<"w","e","d","n","e","s","d","a","y">>,
          <<"t","h","u","r","s","d","a","y">>, <<"f","r","i","d","a","y">>, <<"s","a","t","u","r","d","a","y">>,
          <<"s","u","n","d","a","y">>>>
DayNameSet == Range(days)
todayToken == <<"t","o","d","a","y">>

\* regexp ^\d{4}-\d{2}-\d{2}$
IsDateShape(s) ==
    /\ Len(s) = 10
    /\ \A i \in {1, 2, 3, 4, 6, 7, 9, 10} : IsDigit(s[i])
    /\ s[5] = "-" /\ s[8] = "-"

\* time.Parse("2006-01-02", s) of a string of that shape: the day number,
\* or 0 when the month or the day is out of range
ParseDate(s) ==
    LET y == StrToInt(SubSeq(s, 1, 4))
        m == StrToInt(SubSeq(s, 6, 7))
        d == StrToInt(SubSeq(s, 9, 10))
    IN  IF m \in 1..12 /\ d >= 1 /\ d <= DaysIn(y, m) THEN DayNum(y, m, d) ELSE 0

ErrInvalidDate == "invalid date format"
ErrInvalidDay == "invalid day"
ErrInvalidTimeRange == "invalid time range"
ErrInvalidTimeFormat == "invalid time format"
ErrNotFound == "Block not found"
ErrNoteText == "note text required"
ErrDescription == "description required"
ErrInsert == "Error adding"
NoErr == "nil"

DayResult(err, week, day) == [err |-> err, week |-> week, day |-> day]

\* a parseDay that rolls over to the next year after week 53
parseDayRollAfter53(input0, now) ==
    LET input == ToLower(TrimSpace(input0))
        nextWeek == HasPrefix(input, <<"+">>)
        name == IF nextWeek THEN Tail(input) ELSE input
        cur == ISOWeek(now)
        bumped == cur.week + 1
        year == IF nextWeek /\ bumped > 53 THEN cur.year + 1 ELSE cur.year
        isoWeek == IF ~nextWeek THEN cur.week ELSE IF bumped > 53 THEN 1 ELSE bumped
    IN  IF input = todayToken
        THEN DayResult(NoErr, FormatWeek(cur.year, cur.week),
                       ToLower(WeekdayString(Weekday(now))))
        ELSE IF IsDateShape(input)
        THEN LET t == ParseDate(input)
             IN  IF t = 0 THEN DayResult(ErrInvalidDate, <<>>, <<>>)
                 ELSE DayResult(NoErr, FormatWeek(ISOWeek(t).year, ISOWeek(t).week),
                                ToLower(WeekdayString(Weekday(t))))
        ELSE IF name \notin DayNameSet THEN DayResult(ErrInvalidDay, <<>>, <<>>)
        ELSE DayResult(NoErr, FormatWeek(year, isoWeek), name)

\* parseDay(input) when time.Now() is the date now
parseDay(input0, now) ==
    LET input == ToLower(TrimSpace(input0))
        nextWeek == HasPrefix(input, <<"+">>)
        name == IF nextWeek THEN Tail(input) ELSE input
        cur == ISOWeek(now)
        bumped == cur.week + 1
        year == IF nextWeek /\ bumped > 52 THEN cur.year + 1 ELSE cur.year
        isoWeek == IF ~nextWeek THEN cur.week ELSE IF bumped > 52 THEN 1 ELSE bumped
    IN  IF input = todayToken
        THEN DayResult(NoErr, FormatWeek(cur.year, cur.week),
                       ToLower(WeekdayString(Weekday(now))))
        ELSE IF IsDateShape(input)
        THEN LET t == ParseDate(input)
             IN  IF t = 0 THEN DayResult(ErrInvalidDate, <<>>, <<>>)
                 ELSE DayResult(NoErr, FormatWeek(ISOWeek(t).year, ISOWeek(t).week),
                                ToLower(WeekdayString(Weekday(t))))
        ELSE IF name \notin DayNameSet THEN DayResult(ErrInvalidDay, <<>>, <<>>)
        ELSE DayResult(NoErr, FormatWeek(year, isoWeek), name)

\* isDayArg(s)
isDayArg(s0) ==
    LET s == ToLower(TrimSpace(s0))
        names == DayNameSet \cup {todayToken}
    IN  \/ s \in names
        \/ HasPrefix(s, <<"+">>) /\ Tail(s) \in names
        \/ IsDateShape(s)

-----------------------------------------------------------------------------
(* Week arithmetic *)

\* the Monday weekDateRange and dayDate compute for a week key
mondayOf(week) ==
    LET w == ScanWeek(week)
        jan1 == DayNum(w.year, 1, 1)
        d0 == Monday - Weekday(jan1)
        daysToMonday == IF d0 > 0 THEN d0 - 7 ELSE d0
        firstMonday == jan1 + daysToMonday
    IN  firstMonday + (w.weekNum - 1) * 7

\* dayOffsets[day]: a missing key reads as 0
dayOffset(day) ==
    IF day \in DayNameSet THEN (CHOOSE i \in 1..7 : days[i] = day) - 1 ELSE 0

dayDateNum(week, day) == mondayOf(week) + dayOffset(day)
dayDate(week, day) == FormatJan2(dayDateNum(week, day))
weekDateRange(week) ==
    FormatJan2(mondayOf(week)) \o <<" ", "-", " ">> \o FormatJan2(mondayOf(week) + 6)

-----------------------------------------------------------------------------
(* parseTimeRange *)

\* regexp ^\d{1,2}:\d{2}$
MatchesTime(s) ==
    \/ Len(s) = 4 /\ IsDigit(s[1]) /\ s[2] = ":" /\ IsDigit(s[3]) /\ IsDigit(s[4])
    \/ /\ Len(s) = 5 /\ IsDigit(s[1]) /\ IsDigit(s[2]) /\ s[3] = ":"
       /\ IsDigit(s[4]) /\ IsDigit(s[5])

\* the normalisation to HH:MM
\* a parseTimeRange that leaves the hour as it was written
PadHourNever(t) == t
PadHour(t) == IF Len(t) = 4 THEN <<"0">> \o t ELSE t

TimeResult(err, start, end) == [err |-> err, start |-> start, end |-> end]

parseTimeRange(input) ==
    LET parts == Split(input, "-")
    IN  IF Len(parts) # 2 THEN TimeResult(ErrInvalidTimeRange, <<>>, <<>>)
        ELSE LET start == TrimSpace(parts[1])
                 end == TrimSpace(parts[2])
             IN  IF ~MatchesTime(start) \/ ~MatchesTime(end)
                 THEN TimeResult(ErrInvalidTimeFormat, <<>>, <<>>)
                 ELSE TimeResult(NoErr, PadHour(start), PadHour(end))

\* isTimeRange(s): regexp ^\d{1,2}:\d{2}-\d{1,2}:\d{2}$
isTimeRange(s) ==
    LET parts == Split(s, "-")
    IN  Len(parts) = 2 /\ MatchesTime(parts[1]) /\ MatchesTime(parts[2])

-----------------------------------------------------------------------------
(* extractTags *)

\* the longest prefix of s made of \w characters
RECURSIVE WordPrefix(_)
WordPrefix(s) ==
    IF s # <<>> /\ IsWord(Head(s)) THEN <<Head(s)>> \o WordPrefix(Tail(s)) ELSE <<>>

\* whether a match of #(\w+) starts at the head of s
TagAtHead(s) == Len(s) >= 2 /\ s[1] = "#" /\ IsWord(s[2])

\* hashtagRe.FindAllStringSubmatch(desc, -1): the captured words, in order
RECURSIVE FindAllTags(_)
FindAllTags(s) ==
    IF s = <<>> THEN <<>>
    ELSE IF TagAtHead(s)
    THEN LET w == WordPrefix(Tail(s))
         IN  <<w>> \o FindAllTags(SubSeq(s, Len(w) + 2, Len(s)))
    ELSE FindAllTags(Tail(s))

\* hashtagRe.ReplaceAllString(desc, "")
RECURSIVE StripTags(_)
StripTags(s) ==
    IF s = <<>> THEN <<>>
    ELSE IF TagAtHead(s)
    THEN StripTags(SubSeq(s, Len(WordPrefix(Tail(s))) + 2, Len(s)))
    ELSE <<Head(s)>> \o StripTags(Tail(s))

\* the dedupe loop: the first occurrence of each tag, in order
RECURSIVE Dedupe(_, _)
Dedupe(tagList, seen) ==
    IF tagList = <<>> THEN <<>>
    ELSE IF Head(tagList) \in seen THEN Dedupe(Tail(tagList), seen)
    ELSE <<Head(tagList)>> \o Dedupe(Tail(tagList), seen \cup {Head(tagList)})

\* the list of unique tags extractTags joins with ","
uniqueTags(desc, flagTag) ==
    LET found == FindAllTags(desc)
        tagList == (IF flagTag # <<>> THEN <<ToLower(flagTag)>> ELSE <<>>)
                   \o [i \in 1..Len(found) |-> ToLower(found[i])]
    IN  Dedupe(tagList, {})

extractTags(desc, flagTag) ==
    [cleanDesc |-> TrimSpace(StripTags(desc)),
     tags |-> Join(uniqueTags(desc, flagTag), <<",">>)]

-----------------------------------------------------------------------------
(* generateID *)

\* hex.EncodeToString of the three bytes rand.Read filled
HexDigits == <<"0","1","2","3","4","5","6","7","8","9","a","b","c","d","e","f">>
HexByte(b) == <<HexDigits[(b \div 16) + 1], HexDigits[(b % 16) + 1]>>
generateID(bytes) == HexByte(bytes[1]) \o HexByte(bytes[2]) \o HexByte(bytes[3])

-----------------------------------------------------------------------------
(* The inputs the commands are run with *)

\* the date the commands run on: Friday 2021-01-01, in ISO week 2020-W53
StartDay == DayNum(2021, 1, 1)
Dates == {StartDay}

nextMonday == <<"+","M","o","n","d","a","y">>
funday == <<"f","u","n","d","a","y">>
noSuchDate == <<"2","0","2","1","-","0","2","-","3","0">>
DayTokens == {nextMonday, <<"2","0","2","1","-","0","1","-","0","4">>, funday, noSuchDate}
nineToTen == <<"9",":","0","0","-","1","0",":","0","0">>
TimeTokens == {nineToTen, <<"9","9",":","9","9","-","9","9",":","9","9">>, <<"9",":","5","-","1","0",":","0","0">>, <<"9",":","0","0">>}
\* the outcomes of rand.Read that are told apart
RandomBytes == {<<163, 242, 193>>, <<11, 126, 68>>}

AddTexts == {<<<<"d","e","e","p"," ","w","o","r","k"," ","#","W","k">>>>}
NoteTexts == {<<<<"i","d","e","a">>>>, <<<<"#","t","o","d","o">>>>, <<<<>>>>, <<>>}
UnplannedTexts == {<<<<"c","a","l","l">>>>}
FlagTags == {<<>>}

\* the pairs of a day token and a time token add is tried with: one of the
\* two is a valid one, or both are invalid
DayTimePairs ==
    {p \in DayTokens \X TimeTokens :
        p[1] = nextMonday \/ p[2] = nineToTen \/ p = <<funday, <<"9",":","0","0">>>>}

\* add [day] <start>-<end> <description>: cobra wants two arguments or more
AddArgs ==
    {<<t>> \o x : t \in TimeTokens, x \in AddTexts}
        \cup {p \o x : p \in DayTimePairs, x \in AddTexts}
\* actual --unplanned [day] <start>-<end> <description>, tried for today,
\* with a day token parseDay rejects, and without a description
UnplannedArgs ==
    {<<t>> \o x : t \in TimeTokens, x \in UnplannedTexts}
        \cup {<<d, nineToTen>> \o x : d \in {funday, noSuchDate}, x \in UnplannedTexts}
        \cup {<<funday, <<"9",":","0","0">>>> \o x : x \in UnplannedTexts}
        \cup {<<nextMonday, nineToTen>>}
\* note [day] <text>: one argument or more, tried for today and with a date
\* parseDay rejects (a first argument that is no day argument is text)
NoteArgs ==
    {a \in NoteTexts \cup {<<noSuchDate>> \o x : x \in NoteTexts} : Len(a) >= 1}
\* ls [day], with --week, --last, --next
LsFlag(week, lastFlag, nextFlag) == [week |-> week, last |-> lastFlag, next |-> nextFlag]
NoFlags == LsFlag(<<>>, FALSE, FALSE)
WeekFlags == {<<>>, <<"2","0","2","1","-","W","0","1">>}
LsArgs == {<<>>, <<<<"t","o","d","a","y">>>>, <<funday>>}
LsInputs ==
    {<<NoFlags, a>> : a \in LsArgs}
        \cup {<<f, <<>> >> : f \in {LsFlag(<<>>, TRUE, FALSE), LsFlag(<<>>, FALSE, TRUE),
                                  LsFlag(<<>>, TRUE, TRUE), LsFlag(<<"2","0","2","1","-","W","0","1">>, FALSE, FALSE)}}

-----------------------------------------------------------------------------
(* The values the commands compute from their arguments, evaluated once    *)
(* for each input of the sets above                                        *)

\* the split of the arguments of add and of actual --unplanned
SplitArgs(args) ==
    IF isTimeRange(args[1])
    THEN [dayArg |-> todayToken, timeArg |-> args[1], descArgs |-> Tail(args)]
    ELSE [dayArg |-> args[1], timeArg |-> args[2], descArgs |-> Tail(Tail(args))]

\* what add and actual --unplanned parse before they write
parseBlockArgs(args, flagTag, now) ==
    LET a == SplitArgs(args)
    IN  [d |-> parseDay(a.dayArg, now),
         t |-> parseTimeRange(a.timeArg),
         descArgs |-> a.descArgs,
         x |-> extractTags(Join(a.descArgs, <<" ">>), flagTag)]
blockArgsOf ==
    [args \in AddArgs \cup UnplannedArgs, flagTag \in FlagTags, now \in Dates |->
        parseBlockArgs(args, flagTag, now)]

\* what note parses before it writes
parseNoteArgs(args, flagTag, now) ==
    LET dayArg == IF isDayArg(args[1]) THEN args[1] ELSE todayToken
        descArgs == IF isDayArg(args[1]) THEN Tail(args) ELSE args
    IN  [d |-> parseDay(dayArg, now),
         descArgs |-> descArgs,
         x |-> extractTags(Join(descArgs, <<" ">>), flagTag)]
noteArgsOf ==
    [args \in NoteArgs, flagTag \in FlagTags, now \in Dates |->
        parseNoteArgs(args, flagTag, now)]

timeRangeOf == [t \in TimeTokens |-> parseTimeRange(t)]
idOf == [bytes \in RandomBytes |-> generateID(bytes)]
IdArgs == {idOf[b] : b \in RandomBytes}
\* actual <id> <start>-<end>
ActualArgs == {<<id, t>> : id \in IdArgs, t \in TimeTokens \ {<<"9","9",":","9","9","-","9","9",":","9","9">>}}

\* getWeek(cmd) with the flags --week, --last and --next
getWeek(weekFlag, lastFlag, nextFlag, now) ==
    LET cur == ISOWeek(now)
    IN  IF weekFlag # <<>> THEN weekFlag
        ELSE IF lastFlag
        THEN (IF cur.week - 1 < 1 THEN FormatWeek(cur.year - 1, 52)
              ELSE FormatWeek(cur.year, cur.week - 1))
        ELSE IF nextFlag
        THEN (IF cur.week + 1 > 52 THEN FormatWeek(cur.year + 1, 1)
              ELSE FormatWeek(cur.year, cur.week + 1))
        ELSE FormatWeek(cur.year, cur.week)
weekOf ==
    [weekFlag \in WeekFlags, lastFlag \in BOOLEAN, nextFlag \in BOOLEAN, now \in Dates |->
        getWeek(weekFlag, lastFlag, nextFlag, now)]
WeekKeys == {weekOf[k] : k \in DOMAIN weekOf}

\* the day filter of ls: the parsed day, or the lowercased argument
filterDayOf(args, now) ==
    IF args = <<>> THEN <<>>
    ELSE LET d == parseDay(args[1], now)
         IN  IF d.err = NoErr THEN d.day ELSE ToLower(args[1])
filterOf == [args \in LsArgs, now \in Dates |-> filterDayOf(args, now)]

\* strings.Title(day)
Title(day) == <<ToUpperChar(Head(day))>> \o Tail(day)

\* the week before and the week after, as the handler of serve computes them
prevWeekOf(week) ==
    LET w == ScanWeek(week)
    IN  IF w.weekNum - 1 < 1 THEN FormatWeek(w.year - 1, 52)
        ELSE FormatWeek(w.year, w.weekNum - 1)
nextWeekOf(week) ==
    LET w == ScanWeek(week)
    IN  IF w.weekNum + 1 > 52 THEN FormatWeek(w.year + 1, 1)
        ELSE FormatWeek(w.year, w.weekNum + 1)

\* the week the handler of serve shows for the query parameter week
serveWeek(weekParam, now) ==
    IF weekParam = <<>> THEN FormatWeek(ISOWeek(now).year, ISOWeek(now).week) ELSE weekParam
serveWeekOf == [weekParam \in WeekFlags, now \in Dates |-> serveWeek(weekParam, now)]
navOf == [week \in WeekKeys |-> <<prevWeekOf(week), nextWeekOf(week)>>]

dayDateOf == [week \in WeekKeys, day \in DayNameSet |-> dayDate(week, day)]
weekDateRangeOf == [week \in WeekKeys |-> weekDateRange(week)]

-----------------------------------------------------------------------------
(* The table blocks *)

\* sql.NullString
NullString(str, valid) == [String |-> str, Valid |-> valid]
Null == NullString(<<>>, FALSE)
Text(str) == NullString(str, TRUE)

\* a row of blocks; created_at defaults to CURRENT_TIMESTAMP
Block(id, week, day, desc, ps, pe, as, ae, isNote, isUnplanned, isDone, tags, createdAt) ==
    [ID |-> id, Week |-> week, Day |-> day, Description |-> desc,
     PlannedStart |-> ps, PlannedEnd |-> pe, ActualStart |-> as, ActualEnd |-> ae,
     IsNote |-> isNote, IsUnplanned |-> isUnplanned, IsDone |-> isDone,
     Tags |-> tags, CreatedAt |-> createdAt]

IdsOf(rows) == {r.ID : r \in rows}

\* INSERT INTO blocks: the primary key rejects a row whose id is stored
InsertOk(rows, row) == row.ID \notin IdsOf(rows)
Insert(rows, row) == IF InsertOk(rows, row) THEN rows \cup {row} ELSE rows

\* UPDATE blocks SET actual_start = ? WHERE id = ?, with no actual_end
UpdateActualStartOnly(rows, id, start, end) ==
    {IF r.ID = id THEN [r EXCEPT !.ActualStart = Text(start)] ELSE r : r \in rows}
\* UPDATE blocks SET actual_start = ?, actual_end = ? WHERE id = ?
UpdateActual(rows, id, start, end) ==
    {IF r.ID = id THEN [r EXCEPT !.ActualStart = Text(start), !.ActualEnd = Text(end)]
     ELSE r : r \in rows}
\* UPDATE blocks SET is_done = ? with no WHERE clause
UpdateDoneEveryRow(rows, id, v) == {[r EXCEPT !.IsDone = v] : r \in rows}
\* UPDATE blocks SET is_done = ? WHERE id = ?
UpdateDone(rows, id, v) == {IF r.ID = id THEN [r EXCEPT !.IsDone = v] ELSE r : r \in rows}
\* DELETE FROM blocks with no WHERE clause
DeleteEveryRow(rows, id) == {}
\* DELETE FROM blocks WHERE id = ?
Delete(rows, id) == {r \in rows : r.ID # id}
\* result.RowsAffected() of a statement with WHERE id = ?
RowsAffected(rows, id) == Cardinality({r \in rows : r.ID = id})

-----------------------------------------------------------------------------
(* The listing of ls and of the web viewer *)

CHECK == "CHECK"
BOLT == "BOLT"
ARROW == "ARROW"
BULLET == "BULLET"

\* the CASE expression of ORDER BY
sentinel == <<"9","9",":","9","9">>
SortKey(b) ==
    IF b.PlannedStart.Valid THEN b.PlannedStart.String
    ELSE IF b.ActualStart.Valid THEN b.ActualStart.String
    ELSE sentinel

\* ORDER BY CASE ..., created_at: b must not come before a
OrderedPair(a, b) ==
    \/ StrLess(SortKey(a), SortKey(b))
    \/ SortKey(a) = SortKey(b) /\ a.CreatedAt <= b.CreatedAt

\* every order the query may return rows in: rows that tie on both keys
\* come in an order SQL leaves open
Orderings(rows) ==
    LET n == Cardinality(rows)
    IN  {f \in [1..n -> rows] :
            /\ \A i, j \in 1..n : i # j => f[i] # f[j]
            /\ \A i, j \in 1..n : i < j => OrderedPair(f[i], f[j])}

\* the rows of one query, WHERE week = ? AND day = ?, in the order ord
RECURSIVE Query(_, _, _)
Query(ord, week, day) ==
    IF ord = <<>> THEN <<>>
    ELSE (IF Head(ord).Week = week /\ Head(ord).Day = day THEN <<Head(ord)>> ELSE <<>>)
         \o Query(Tail(ord), week, day)

\* the status column of a block that is not a note
\* a status that lets the completion marker override the unplanned marker
statusOfDoneFirst(b) == IF b.IsDone THEN CHECK ELSE IF b.IsUnplanned THEN BOLT ELSE " "
statusOf(b) == IF b.IsUnplanned THEN BOLT ELSE IF b.IsDone THEN CHECK ELSE " "

\* the time column
timeStrOf(b) ==
    IF b.IsUnplanned THEN b.ActualStart.String \o <<"-">> \o b.ActualEnd.String
    ELSE IF b.ActualStart.Valid
    THEN b.PlannedStart.String \o <<"-">> \o b.PlannedEnd.String \o <<" ", ARROW, " ">>
         \o b.ActualStart.String \o <<"-">> \o b.ActualEnd.String
    ELSE b.PlannedStart.String \o <<"-">> \o b.PlannedEnd.String

tagStrOf(b) ==
    IF b.Tags.Valid /\ b.Tags.String # <<>>
    THEN <<" ", "#">> \o ReplaceAll(b.Tags.String, ",", <<" ", "#">>)
    ELSE <<>>

\* the arguments of the Printf that prints one block
Line(marker, id, timeStr, desc, tagStr) ==
    [marker |-> marker, ID |-> id, timeStr |-> timeStr, Description |-> desc,
     tagStr |-> tagStr]
Render(b) ==
    IF b.IsNote THEN Line(BULLET, <<>>, <<>>, b.Description, tagStrOf(b))
    ELSE Line(statusOf(b), b.ID, timeStrOf(b), b.Description, tagStrOf(b))

\* the sections ls prints for the days from index i on
RECURSIVE Sections(_, _, _, _)
Sections(ord, week, filterDay, i) ==
    IF i > 7 THEN <<>>
    ELSE LET day == days[i]
             blocks == Query(ord, week, day)
             skip == \/ filterDay # <<>> /\ filterDay # day
                     \/ blocks = <<>> /\ filterDay = <<>>
         IN  (IF skip THEN <<>>
              ELSE <<[day |-> ToUpper(day), date |-> dayDateOf[week, day],
                      blocks |-> blocks,
                      lines |-> [k \in 1..Len(blocks) |-> Render(blocks[k])]]>>)
             \o Sections(ord, week, filterDay, i + 1)

NoOutput == [week |-> <<>>, range |-> <<>>, nav |-> <<>>, sections |-> <<>>]

-----------------------------------------------------------------------------
(* The commands *)

NoToggle == [phase |-> "none", id |-> <<>>, before |-> {}]
\* range is the time range given to actual <id>
Ran(cmd, id, err) == [cmd |-> cmd, id |-> id, range |-> <<>>, day |-> <<>>, err |-> err]

\* what every command but ls, serve, done and undone leaves behind
FinishWith(ran) ==
    /\ last' = ran
    /\ out' = NoOutput
    /\ toggle' = NoToggle
    /\ UNCHANGED <<clock, today, dtok, dres, ddate>>
Finish(cmd, id, err) == FinishWith(Ran(cmd, id, err))

\* an add that inserts the row before it looks at the time range
cmdAddWriteFirst(args, flagTag, bytes) ==
    LET a == blockArgsOf[args, flagTag, today]
        d == a.d
        t == a.t
        x == a.x
        row == Block(idOf[bytes], d.week, d.day, x.cleanDesc,
                     Text(t.start), Text(t.end), Null, Null,
                     FALSE, FALSE, FALSE, Text(x.tags), clock)
    IN  IF d.err # NoErr
        THEN Finish("add", <<>>, d.err) /\ UNCHANGED store
        ELSE IF ~InsertOk(store, row)
        THEN Finish("add", <<>>, ErrInsert) /\ UNCHANGED store
        ELSE /\ store' = Insert(store, row)
             /\ Finish("add", <<>>, t.err)

cmdAdd(args, flagTag, bytes) ==
    LET a == blockArgsOf[args, flagTag, today]
        d == a.d
        t == a.t
        x == a.x
        row == Block(idOf[bytes], d.week, d.day, x.cleanDesc,
                     Text(t.start), Text(t.end), Null, Null,
                     FALSE, FALSE, FALSE, Text(x.tags), clock)
    IN  IF d.err # NoErr
        THEN Finish("add", <<>>, d.err) /\ UNCHANGED store
        ELSE IF t.err # NoErr
        THEN Finish("add", <<>>, t.err) /\ UNCHANGED store
        ELSE IF ~InsertOk(store, row)
        THEN Finish("add", <<>>, ErrInsert) /\ UNCHANGED store
        ELSE /\ store' = Insert(store, row)
             /\ Finish("add", <<>>, NoErr)

cmdNote(args, flagTag, bytes) ==
    LET a == noteArgsOf[args, flagTag, today]
        descArgs == a.descArgs
        d == a.d
        x == a.x
        row == Block(idOf[bytes], d.week, d.day, x.cleanDesc,
                     Null, Null, Null, Null,
                     TRUE, FALSE, FALSE, Text(x.tags), clock)
    IN  IF Len(descArgs) = 0
        THEN Finish("note", <<>>, ErrNoteText) /\ UNCHANGED store
        ELSE IF d.err # NoErr
        THEN Finish("note", <<>>, d.err) /\ UNCHANGED store
        ELSE IF ~InsertOk(store, row)
        THEN Finish("note", <<>>, ErrInsert) /\ UNCHANGED store
        ELSE /\ store' = Insert(store, row)
             /\ Finish("note", <<>>, NoErr)

\* actual --unplanned
cmdActualUnplanned(args, flagTag, bytes) ==
    LET a == blockArgsOf[args, flagTag, today]
        d == a.d
        t == a.t
        x == a.x
        row == Block(idOf[bytes], d.week, d.day, x.cleanDesc,
                     Null, Null, Text(t.start), Text(t.end),
                     FALSE, TRUE, TRUE, Text(x.tags), clock)
    IN  IF d.err # NoErr
        THEN Finish("unplanned", <<>>, d.err) /\ UNCHANGED store
        ELSE IF t.err # NoErr
        THEN Finish("unplanned", <<>>, t.err) /\ UNCHANGED store
        ELSE IF Len(a.descArgs) = 0
        THEN Finish("unplanned", <<>>, ErrDescription) /\ UNCHANGED store
        ELSE IF ~InsertOk(store, row)
        THEN Finish("unplanned", <<>>, ErrInsert) /\ UNCHANGED store
        ELSE /\ store' = Insert(store, row)
             /\ Finish("unplanned", <<>>, NoErr)

\* actual <id> <start>-<end>
cmdActual(args) ==
    LET id == args[1]
        t == timeRangeOf[args[2]]
        ran(err) == [Ran("actual", id, err) EXCEPT !.range = args[2]]
    IN  IF t.err # NoErr
        THEN FinishWith(ran(t.err)) /\ UNCHANGED store
        ELSE /\ store' = UpdateActual(store, id, t.start, t.end)
             /\ FinishWith(ran(IF RowsAffected(store, id) = 0 THEN ErrNotFound ELSE NoErr))

cmdDone(id) ==
    /\ store' = UpdateDone(store, id, TRUE)
    /\ last' = Ran("done", id, IF RowsAffected(store, id) = 0 THEN ErrNotFound ELSE NoErr)
    /\ toggle' = IF RowsAffected(store, id) = 0 THEN NoToggle
                 ELSE [phase |-> "done", id |-> id, before |-> store]
    /\ out' = NoOutput
    /\ UNCHANGED <<clock, today, dtok, dres, ddate>>

cmdUndone(id) ==
    /\ store' = UpdateDone(store, id, FALSE)
    /\ last' = Ran("undone", id, IF RowsAffected(store, id) = 0 THEN ErrNotFound ELSE NoErr)
    /\ toggle' = IF toggle.phase = "done" /\ toggle.id = id /\ RowsAffected(store, id) # 0
                 THEN [toggle EXCEPT !.phase = "undone"]
                 ELSE NoToggle
    /\ out' = NoOutput
    /\ UNCHANGED <<clock, today, dtok, dres, ddate>>

cmdRm(id) ==
    /\ store' = Delete(store, id)
    /\ Finish("rm", id, IF RowsAffected(store, id) = 0 THEN ErrNotFound ELSE NoErr)

cmdLs(weekFlag, lastFlag, nextFlag, args) ==
    LET week == weekOf[weekFlag, lastFlag, nextFlag, today]
    IN  \E ord \in Orderings(store) :
            /\ out' = [week |-> week, range |-> weekDateRangeOf[week], nav |-> <<>>,
                       sections |-> Sections(ord, week, filterOf[args, today], 1)]
            /\ last' = [Ran("ls", <<>>, NoErr) EXCEPT !.day = IF args = <<>> THEN <<>> ELSE args[1]]
            /\ toggle' = NoToggle
            /\ UNCHANGED <<store, clock, today, dtok, dres, ddate>>

\* one request to the handler of serve: the data handed to the template
cmdServe(weekParam) ==
    LET week == serveWeekOf[weekParam, today]
    IN  \E ord \in Orderings(store) :
            /\ out' = [week |-> week, range |-> weekDateRangeOf[week], nav |-> navOf[week],
                       sections |-> [i \in 1..7 |->
                           [day |-> Title(days[i]),
                            date |-> <<>>,
                            blocks |-> Query(ord, week, days[i]),
                            lines |-> <<>>]]]
            /\ last' = Ran("serve", <<>>, NoErr)
            /\ toggle' = NoToggle
            /\ UNCHANGED <<store, clock, today, dtok, dres, ddate>>

\* a second passes
Tick ==
    /\ clock < MaxClock
    /\ clock' = clock + 1
    /\ UNCHANGED <<store, today, last, out, toggle, dtok, dres, ddate>>

NoDay == DayResult(NoErr, <<>>, <<>>)
NoDate == [monday |-> <<>>, date |-> <<>>]

Init ==
    /\ store = {}
    /\ clock = 0
    /\ today = StartDay
    /\ last = Ran("none", <<>>, NoErr)
    /\ out = NoOutput
    /\ toggle = NoToggle
    /\ removed = {}
    /\ dtok = <<>>
    /\ dres = NoDay
    /\ ddate = NoDate

\* the commands, with their arguments drawn from the sets of inputs
Add ==
    \E args \in AddArgs, flagTag \in FlagTags, bytes \in RandomBytes :
        cmdAdd(args, flagTag, bytes) /\ UNCHANGED removed
Note ==
    \E args \in NoteArgs, flagTag \in FlagTags, bytes \in RandomBytes :
        cmdNote(args, flagTag, bytes) /\ UNCHANGED removed
Unplanned ==
    \E args \in UnplannedArgs, flagTag \in FlagTags, bytes \in RandomBytes :
        cmdActualUnplanned(args, flagTag, bytes) /\ UNCHANGED removed
Actual == \E args \in ActualArgs : cmdActual(args) /\ UNCHANGED removed
Done == \E id \in IdArgs : cmdDone(id) /\ UNCHANGED removed
Undone == \E id \in IdArgs : cmdUndone(id) /\ UNCHANGED removed
Rm == \E id \in IdArgs : cmdRm(id) /\ UNCHANGED removed
Ls ==
    \E in \in LsInputs :
        cmdLs(in[1].week, in[1].last, in[1].next, in[2]) /\ UNCHANGED removed
Serve == \E weekParam \in WeekFlags : cmdServe(weekParam) /\ UNCHANGED removed
SecondPasses == Tick /\ UNCHANGED removed

Next ==
    \/ Add \/ Note \/ Unplanned \/ Actual \/ Done \/ Undone \/ Rm
    \/ Ls \/ Serve \/ SecondPasses

Spec == Init /\ [][Next]_vars

-----------------------------------------------------------------------------
(* The same commands with one input each, and the ids rm deleted recorded  *)
(* in the history variable removed                                         *)

RecordRemoved == removed' = removed \cup (IdsOf(store) \ IdsOf(store'))

AddOne ==
    \E x \in AddTexts, bytes \in RandomBytes :
        cmdAdd(<<nineToTen>> \o x, <<>>, bytes) /\ RecordRemoved
NoteOne == \E bytes \in RandomBytes : cmdNote(<<<<"i","d","e","a">>>>, <<>>, bytes) /\ RecordRemoved
UnplannedOne ==
    \E x \in UnplannedTexts, bytes \in RandomBytes :
        cmdActualUnplanned(<<nineToTen>> \o x, <<>>, bytes) /\ RecordRemoved
ActualOne == \E id \in IdArgs : cmdActual(<<id, nineToTen>>) /\ RecordRemoved
DoneOne == \E id \in IdArgs : cmdDone(id) /\ RecordRemoved
UndoneOne == \E id \in IdArgs : cmdUndone(id) /\ RecordRemoved
RmOne == \E id \in IdArgs : cmdRm(id) /\ RecordRemoved
LsOne == cmdLs(<<>>, FALSE, FALSE, <<>>) /\ RecordRemoved
ServeOne == cmdServe(<<>>) /\ RecordRemoved
SecondPassesOne == Tick /\ RecordRemoved

NextIds ==
    \/ AddOne \/ NoteOne \/ UnplannedOne \/ ActualOne \/ DoneOne \/ UndoneOne
    \/ RmOne \/ LsOne \/ ServeOne \/ SecondPassesOne

SpecIds == Init /\ [][NextIds]_vars

-----------------------------------------------------------------------------
(* The round trip of a date: parseDay of a YYYY-MM-DD token, then the      *)
(* Monday and the date that dayDate computes from the result               *)

DateToken(y, m, d) == Pad4(y) \o <<"-">> \o Pad2(m) \o <<"-">> \o Pad2(d)

InitDate ==
    /\ store = {}
    /\ clock = 0
    /\ today = StartDay
    /\ last = Ran("none", <<>>, NoErr)
    /\ out = NoOutput
    /\ toggle = NoToggle
    /\ removed = {}
    /\ dtok \in {DateToken(y, m, d) : y \in FirstYear..LastYear, m \in 1..12, d \in 1..31}
    /\ dres = NoDay
    /\ ddate = NoDate

ResolveDate ==
    /\ dres = NoDay
    /\ dres' = parseDay(dtok, today)
    /\ UNCHANGED <<store, clock, today, last, out, toggle, removed, dtok, ddate>>

ShowDate ==
    /\ dres.week # <<>>
    /\ ddate = NoDate
    /\ ddate' = [monday |-> FormatJan2(mondayOf(dres.week)),
                 date |-> dayDate(dres.week, dres.day)]
    /\ UNCHANGED <<store, clock, today, last, out, toggle, removed, dtok, dres>>

NextDate == ResolveDate \/ ShowDate

SpecDate == InitDate /\ [][NextDate]_vars

-----------------------------------------------------------------------------
(* parseDay on its own: a weekday name, plain or with "+", at the turn of   *)
(* a year                                                                  *)

\* time.Now(): the last weeks of December and the first days of January
YearEnds ==
    {DayNum(y, 12, d) : y \in FirstYear..LastYear, d \in 15..31}
        \cup {DayNum(y, 1, d) : y \in FirstYear..LastYear, d \in 1..10}

InitDay ==
    /\ store = {}
    /\ clock = 0
    /\ today \in YearEnds
    /\ last = Ran("none", <<>>, NoErr)
    /\ out = NoOutput
    /\ toggle = NoToggle
    /\ removed = {}
    /\ dtok \in DayNameSet \cup {<<"+">> \o d : d \in DayNameSet}
    /\ dres = NoDay
    /\ ddate = NoDate

SpecDay == InitDay /\ [][ResolveDate]_vars

-----------------------------------------------------------------------------
(* parseTimeRange on its own *)

\* what stands on a side of "-" in a time range token
TimePieces ==
    {<<>>, <<"9",":","0","0">>, <<"1","0",":","0","0">>, <<"9",":","5">>,
     <<" ","9",":","0","0"," ">>, <<"n","o","o","n">>}
\* the tokens: one, two or three pieces with "-" between them
TimeRangeTokens ==
    TimePieces \cup {p \o <<"-">> \o q : p, q \in TimePieces}
        \cup {p \o <<"-">> \o q \o <<"-">> \o r : p, q, r \in TimePieces}

InitTime ==
    /\ store = {}
    /\ clock = 0
    /\ today = StartDay
    /\ last = Ran("none", <<>>, NoErr)
    /\ out = NoOutput
    /\ toggle = NoToggle
    /\ removed = {}
    /\ dtok \in TimeRangeTokens
    /\ dres = NoDay
    /\ ddate = NoDate

ParseTime ==
    /\ last.cmd = "none"
    /\ dres' = parseTimeRange(dtok)
    /\ last' = Ran("parseTimeRange", <<>>, dres'.err)
    /\ UNCHANGED <<store, clock, today, out, toggle, removed, dtok, ddate>>

SpecTime == InitTime /\ [][ParseTime]_vars

-----------------------------------------------------------------------------
(* extractTags on its own *)

\* the words of a description
TagWords == {<<"a">>, <<"#","b">>, <<"#","B">>, <<"#","c">>, <<"#">>, <<"#","b","#","c">>}
\* the descriptions: one, two or three words joined as cmdAdd joins descArgs
TagTexts ==
    TagWords \cup {Join(<<p, q>>, <<" ">>) : p, q \in TagWords}
        \cup {Join(<<p, q, r>>, <<" ">>) : p, q, r \in TagWords}
\* the values of --tag
TagFlags == {<<>>, <<"B">>, <<"c">>, <<"c",",","b">>}

InitTags ==
    /\ store = {}
    /\ clock = 0
    /\ today = StartDay
    /\ last = Ran("none", <<>>, NoErr)
    /\ out = NoOutput
    /\ toggle = NoToggle
    /\ removed = {}
    /\ dtok \in TagTexts \X TagFlags
    /\ dres = NoDay
    /\ ddate = NoDate

ExtractTags ==
    /\ last.cmd = "none"
    /\ dres' = extractTags(dtok[1], dtok[2])
    /\ last' = Ran("extractTags", <<>>, NoErr)
    /\ UNCHANGED <<store, clock, today, out, toggle, removed, dtok, ddate>>

SpecTags == InitTags /\ [][ExtractTags]_vars

-----------------------------------------------------------------------------
(* Properties *)

NoTimes(b) ==
    /\ ~b.PlannedStart.Valid /\ ~b.PlannedEnd.Valid
    /\ ~b.ActualStart.Valid /\ ~b.ActualEnd.Valid
HasStart(b) == b.PlannedStart.Valid \/ b.ActualStart.Valid
\* a step of Spec that runs a command (the clock stands still)
CommandStep == clock' = clock

\* C1: in every reachable state, every entry with isNote = true has none of
\* the four time fields, also after actual <id> <range> on the id of a note.
C1_NotesHaveNoTimes == \A b \in store : b.IsNote => NoTimes(b)

\* C2: for every real date D given as a YYYY-MM-DD token, the Monday computed
\* from the week key parseDay returns is the Monday that begins D's ISO week,
\* and dayDate of the week key and day parseDay returns is D itself.
C2_DateRoundTrip ==
    ddate # NoDate =>
        LET D == ParseDate(dtok)
        IN  /\ ddate.date = FormatJan2(D)
            /\ ddate.monday = FormatJan2(D - ((Weekday(D) + 6) % 7))

\* C3: in the listing of any bucket, every entry with no start time comes
\* after every entry that has a start time.
C3_NoStartComesLast ==
    \A k \in DOMAIN out.sections :
        LET blocks == out.sections[k].blocks
        IN  \A i, j \in DOMAIN blocks :
                (i < j /\ ~HasStart(blocks[i])) => ~HasStart(blocks[j])

\* the blocks ls listed and the lines it printed for them, side by side
Listed ==
    UNION {{<<out.sections[k].blocks[i], out.sections[k].lines[i]>> :
                i \in DOMAIN out.sections[k].lines} : k \in DOMAIN out.sections}

\* C4 (as amended): for every entry that is not a note, the status marker ls
\* prints is the unplanned marker if isUnplanned, otherwise the completion
\* marker if isDone, otherwise blank.
C4_StatusMarker ==
    \A p \in Listed :
        ~p[1].IsNote =>
            p[2].marker = IF p[1].IsUnplanned THEN BOLT
                          ELSE IF p[1].IsDone THEN CHECK ELSE " "

\* C4 (as claimed): the completion marker if isDone, otherwise the unplanned
\* marker if isUnplanned, otherwise blank.
C4_DoneMarkerFirst ==
    \A p \in Listed :
        ~p[1].IsNote =>
            p[2].marker = IF p[1].IsDone THEN CHECK
                          ELSE IF p[1].IsUnplanned THEN BOLT ELSE " "

\* ls has listed an unplanned entry that is done, and one that is not
C4_Witness ==
    /\ \E p \in Listed : p[1].IsUnplanned /\ p[1].IsDone /\ p[2].marker = BOLT
    /\ \E p \in Listed : ~p[1].IsUnplanned /\ p[1].IsDone /\ p[2].marker = CHECK

\* the row of id in rows
RowOf(rows, id) == CHOOSE b \in rows : b.ID = id
\* done and then undone on toggle.id have just run, from store toggle.before
Toggled == toggle.phase = "undone"
\* the line of toggle.id is as it was, and the other rows are as they were
SameAfterToggle ==
    /\ Render(RowOf(store, toggle.id)) = Render(RowOf(toggle.before, toggle.id))
    /\ Delete(store, toggle.id) = Delete(toggle.before, toggle.id)
\* whether the line of b shows that b is done
ShowsDone(b) == ~b.IsNote /\ ~b.IsUnplanned /\ b.IsDone

\* C5 (as amended): for a stored entry that is a note, is unplanned or is not
\* done, done and then undone on its id leave its rendered line as it was,
\* and change no other entry.
C5_DoneUndoneRestores ==
    (Toggled /\ ~ShowsDone(RowOf(toggle.before, toggle.id))) => SameAfterToggle

\* C5 (as claimed): for any stored entry, done and then undone leave its
\* rendered line as it was, and change no other entry.
C5_DoneUndoneRestoresAny == Toggled => SameAfterToggle

\* done and undone ran on a planned block that was not done, beside another row
C5_Witness ==
    /\ Toggled
    /\ Cardinality(store) = 2
    /\ LET b == RowOf(toggle.before, toggle.id)
       IN  ~b.IsNote /\ ~b.IsUnplanned /\ ~b.IsDone

IdCommands == {"rm", "done", "undone", "actual"}
\* a command step that ran a command of IdCommands on an id not in the store
MissingId == CommandStep /\ last'.cmd \in IdCommands /\ last'.id \notin IdsOf(store)

\* C6 (as amended): rm, done or undone with an id that is not in the store,
\* and actual <id> with such an id and a time range that parses, report the
\* not-found error; actual <id> with such an id and a time range that does
\* not parse reports the error of the time range; in each case the store is
\* unchanged.
C6_MissingIdLeavesStore ==
    [][MissingId =>
          /\ store' = store
          /\ last'.err =
                IF last'.cmd = "actual" /\ parseTimeRange(last'.range).err # NoErr
                THEN parseTimeRange(last'.range).err
                ELSE ErrNotFound]_vars

\* C6 (as claimed): each of the four commands with an id that is not in the
\* store reports the not-found error and leaves the store unchanged.
C6_MissingIdNotFound ==
    [][MissingId => (store' = store /\ last'.err = ErrNotFound)]_vars

\* rm of an id that is not stored failed, with another row in the store
C6_Witness ==
    /\ last.cmd = "rm" /\ last.err = ErrNotFound
    /\ store # {} /\ last.id \notin IdsOf(store)

ParseErrors == {ErrInvalidDay, ErrInvalidDate, ErrInvalidTimeRange, ErrInvalidTimeFormat}

\* C7: when add, note, actual --unplanned or actual <id> fails because its
\* day token or its time range is invalid, the store is as it was before.
C7_ValidateThenWrite ==
    [][(CommandStep /\ last'.err \in ParseErrors) => store' = store]_vars

\* add failed on its time range with a row in the store
C7_Witness ==
    /\ last.cmd = "add" /\ last.err = ErrInvalidTimeFormat
    /\ store # {}

\* C8: no stored note has an empty description.
C8_NotesHaveText == \A b \in store : b.IsNote => b.Description # <<>>

\* C9: no stored entry has an id that rm deleted before, and no two stored
\* entries share an id.
C9_IdsNeverReused ==
    /\ \A b \in store : b.ID \notin removed
    /\ \A a, b \in store : a.ID = b.ID => a = b

\* the effective start of a block that has one
EffectiveStart(b) ==
    IF b.PlannedStart.Valid THEN b.PlannedStart.String ELSE b.ActualStart.String
\* the hour and the minute of a clock time, as numbers
HourOf(t) == StrToInt(Split(t, ":")[1])
MinuteOf(t) == StrToInt(Split(t, ":")[2])
\* clock time s is before clock time t
Earlier(s, t) ==
    HourOf(s) < HourOf(t) \/ (HourOf(s) = HourOf(t) /\ MinuteOf(s) < MinuteOf(t))
SameTime(s, t) == HourOf(s) = HourOf(t) /\ MinuteOf(s) = MinuteOf(t)

\* C10: ls and the web viewer list the entries of a bucket that have an
\* effective start (the planned start if there is one, else the actual
\* start) in ascending order of it, as clock times; entries with the same
\* effective start come in ascending order of their creation time.
C10_ListedByEffectiveStart ==
    \A k \in DOMAIN out.sections :
        LET blocks == out.sections[k].blocks
        IN  \A i, j \in DOMAIN blocks :
                (i < j /\ HasStart(blocks[i]) /\ HasStart(blocks[j])) =>
                    LET s == EffectiveStart(blocks[i])
                        t == EffectiveStart(blocks[j])
                    IN  \/ Earlier(s, t)
                        \/ SameTime(s, t) /\ blocks[i].CreatedAt <= blocks[j].CreatedAt

\* a block planned at 99:99 whose actual start is 09:00 is listed after a
\* block of 09:00 that was created later
C10_Witness ==
    \E k \in DOMAIN out.sections :
        LET blocks == out.sections[k].blocks
        IN  /\ Len(blocks) = 2
            /\ blocks[2].PlannedStart = Text(<<"9","9",":","9","9">>)
            /\ blocks[2].ActualStart = Text(<<"0","9",":","0","0">>)
            /\ EffectiveStart(blocks[1]) = <<"0","9",":","0","0">>
            /\ blocks[1].CreatedAt > blocks[2].CreatedAt

\* the week key after the week key of the date now, as C11 states it
SuccessorWeek(now) ==
    LET cur == ISOWeek(now)
    IN  IF cur.week >= 52 THEN FormatWeek(cur.year + 1, 1)
        ELSE FormatWeek(cur.year, cur.week + 1)

\* C11: for a weekday name d, parseDay(d) is the current ISO week key and
\* the day d, parseDay("+" d) is the day d and the successor of the current
\* week key (week + 1, or week 01 of the next year when the current week is
\* 52 or more), and the week number returned is in 1..53.
C11_NextWeekIsSuccessor ==
    (dres # NoDay /\ ddate = NoDate) =>
        LET plus == HasPrefix(dtok, <<"+">>)
            d == IF plus THEN Tail(dtok) ELSE dtok
            cur == ISOWeek(today)
        IN  d \in DayNameSet =>
                /\ dres.err = NoErr
                /\ dres.day = d
                /\ dres.week = IF plus THEN SuccessorWeek(today)
                               ELSE FormatWeek(cur.year, cur.week)
                /\ ScanWeek(dres.week).weekNum \in 1..53

\* "+" with a weekday name was resolved in week 52 of 2020, a year of 53 weeks
C11_Witness ==
    /\ HasPrefix(dtok, <<"+">>)
    /\ ISOWeek(today) = [year |-> 2020, week |-> 52]
    /\ dres.err = NoErr
    /\ dres.week = <<"2","0","2","1","-","W","0","1">>

\* the parts of a time range token, and whether there are two, neither empty
TwoParts(tok) ==
    LET parts == Split(tok, "-")
    IN  Len(parts) = 2 /\ parts[1] # <<>> /\ parts[2] # <<>>

\* C12: parseTimeRange reports the invalid time range error for every token
\* whose split on "-" is not two non-empty parts, and the invalid time
\* format error only for two non-empty parts of which one is not a time.
C12_EmptyPartIsRangeError ==
    last.cmd = "parseTimeRange" =>
        /\ ~TwoParts(dtok) => dres.err = ErrInvalidTimeRange
        /\ dres.err = ErrInvalidTimeFormat =>
              /\ TwoParts(dtok)
              /\ \E k \in 1..2 : ~MatchesTime(TrimSpace(Split(dtok, "-")[k]))

\* the tags of a stored tags column, as ls reads it: split on ","
TagList(tags) == IF tags = <<>> THEN <<>> ELSE Split(tags, ",")
\* the hashtags of a text, lowercase, each at its first appearance
FirstHashtags(desc) ==
    LET found == FindAllTags(desc)
    IN  Dedupe([i \in 1..Len(found) |-> ToLower(found[i])], {})
\* sequence t without the elements equal to x
RECURSIVE Without(_, _)
Without(t, x) ==
    IF t = <<>> THEN <<>>
    ELSE IF Head(t) = x THEN Without(Tail(t), x)
    ELSE <<Head(t)>> \o Without(Tail(t), x)

\* C13: extractTags returns tags that are lowercase and distinct, the
\* explicit tag first if there is one, then the hashtags of the text in
\* the order of their first appearance; the text returned has no hashtag
\* and no white space at either end.
C13_TagsLowercaseDistinct ==
    last.cmd = "extractTags" =>
        LET desc == dtok[1]
            flagTag == dtok[2]
            tags == TagList(dres.tags)
            clean == dres.cleanDesc
        IN  /\ \A i \in DOMAIN tags : tags[i] = ToLower(tags[i])
            /\ \A i, j \in DOMAIN tags : tags[i] = tags[j] => i = j
            /\ IF flagTag = <<>> THEN tags = FirstHashtags(desc)
               ELSE /\ tags # <<>>
                    /\ tags[1] = ToLower(flagTag)
                    /\ Tail(tags) = Without(FirstHashtags(desc), ToLower(flagTag))
            /\ \A i \in 1..(Len(clean) - 1) : ~(clean[i] = "#" /\ IsWord(clean[i + 1]))
            /\ clean # <<>> => (~IsSpace(clean[1]) /\ ~IsSpace(clean[Len(clean)]))

\* C14: a stored entry has planned times exactly when it is neither a note
\* nor unplanned; an unplanned entry has actual times; the planned start and
\* end are both present or both absent, and so are the actual start and end.
C14_TimesByKind ==
    \A b \in store :
        /\ b.PlannedStart.Valid <=> (~b.IsNote /\ ~b.IsUnplanned)
        /\ b.IsUnplanned => (b.ActualStart.Valid /\ b.ActualEnd.Valid)
        /\ b.PlannedStart.Valid <=> b.PlannedEnd.Valid
        /\ b.ActualStart.Valid <=> b.ActualEnd.Valid

\* the store holds an unplanned entry and a planned block whose actual time
\* was recorded by actual <id>
C14_Witness ==
    /\ last.cmd = "actual" /\ last.err = NoErr
    /\ \E b \in store : b.IsUnplanned
    /\ \E b \in store : b.ID = last.id /\ b.PlannedStart.Valid /\ b.ActualStart.Valid

\* C15, for ls: when ls is given a day token that parseDay rejects, it
\* reports parseDay's error and prints nothing.
C15_LsReportsRejectedDay ==
    (last.cmd = "ls" /\ last.day # <<>> /\ parseDay(last.day, today).err # NoErr) =>
        /\ last.err = parseDay(last.day, today).err
        /\ out = NoOutput

\* C16: in the listing of ls, the time column of an entry that is neither a
\* note nor unplanned holds the arrow only if an actual range is recorded
\* and differs from the planned range.
C16_ArrowMeansDiffered ==
    \A p \in Listed :
        (~p[1].IsNote /\ ~p[1].IsUnplanned /\ ARROW \in Range(p[2].timeStr)) =>
            /\ p[1].ActualStart.Valid
            /\ <<p[1].ActualStart, p[1].ActualEnd>> # <<p[1].PlannedStart, p[1].PlannedEnd>>

=============================================================================
